---------------------------- MODULE Spec2Model ----------------------------
(***************************************************************************)
(* Model of class Estimator of FFT_estimation.ipynb: the integration grid   *)
(* built by make_fft_params, the model dispatch of get_cfXh and             *)
(* get_init_estim_params, the objective opt_fun and the driver estimate.    *)
(*                                                                         *)
(* Number encodings (all exact, integers only):                            *)
(*   eta, u        : multiples of 1e-4   (0.5 is 5000, the floor 0.001 is 10)*)
(*   dt            : multiples of 1/252  (the class default is 1)           *)
(*   b, lbda, x    : rational multiples [num, den] of 1e4*pi                *)
(*   w             : multiples of 0.5    (1.0 is 2, 0.5 is 1)               *)
(*   parameters    : multiples of 1e-5   (0.01 is 1000, 2.00001 is 200001)  *)
(*   densities     : multiples of 1e-10  (the floor 1e-9 is 10)             *)
(* A float is a record [k, v]: k is "fin" (value v), "nan", "pinf", "ninf", *)
(* or "none" for Python's None in the constructor argument.                 *)
(* An optional argument is <<>> (None) or <<v>>.                            *)
(***************************************************************************)
EXTENDS Integers, Sequences, FiniteSets, TLC

VARIABLES pc, err, last_op, input_returns, data_returns, N, eta, dt, b, lbda, u, x, w, cur_model, init_params, params, handed, nfev, eval, fits

vars == <<pc, err, last_op, input_returns, data_returns, N, eta, dt, b, lbda, u, x, w, cur_model, init_params, params, handed, nfev, eval, fits>>

----------------------------------------------------------------------------
(* Bounds of the model *)

MaxN == 3

MaxLen == 2

MaxEvals == 2

MaxFits == 1

----------------------------------------------------------------------------
(* Floats *)

Fin(n) == [k |-> "fin", v |-> n]

NaN == [k |-> "nan", v |-> 0]

PInf == [k |-> "pinf", v |-> 0]

NInf == [k |-> "ninf", v |-> 0]

NoneV == [k |-> "none", v |-> 0]

IsFinite(f) == f.k = "fin"

Abs(n) == IF n < 0 THEN -n ELSE n

RECURSIVE GCD(_, _)
GCD(a, c) == IF c = 0 THEN a ELSE GCD(c, a % c)

(* Rationals [num, den] in lowest terms with den > 0; Rat(n, d) needs d # 0 *)
Rat(n, d) ==
    [num |-> (IF d < 0 THEN -n ELSE n) \div GCD(Abs(n), Abs(d)),
     den |-> Abs(d) \div GCD(Abs(n), Abs(d))]

RatNeg(a) == Rat(-a.num, a.den)

RatAdd(a, c) == Rat(a.num * c.den + c.num * a.den, a.den * c.den)

RatSub(a, c) == RatAdd(a, RatNeg(c))

RatScale(j, a) == Rat(j * a.num, a.den)

RatEq(a, c) == a.num * c.den = c.num * a.den

----------------------------------------------------------------------------
(* Class attributes of Estimator *)

N_default == 65536

eta_default == 5000

dt_default == 1

(* the a_min of the clip in get_init_estim_params, 0.001 *)
u_floor == 10

(* the a_min of the clip in opt_fun, 0.000000001 *)
density_floor == 10

----------------------------------------------------------------------------
(* pd.Series(data_returns).dropna(): NaN and None are missing values and   *)
(* are dropped; +Inf and -Inf are not missing and stay.                     *)

isna(f) == f.k \in {"nan", "none"}

dropna_none_kept(s) == SelectSeq(s, LAMBDA f : f.k # "nan")

dropna(s) == SelectSeq(s, LAMBDA f : ~isna(f))

----------------------------------------------------------------------------
(* make_fft_params: the arrays are functions on 0..N-1 (empty when N <= 0) *)

arange(n) == 0 .. (n - 1)

(* w[-1] of a Python array of length n is w[n-1] *)
LastIndex(n) == n - 1

make_u(n, e) == [j \in arange(n) |-> j * e]

make_b(e) == Rat(1, e)

make_lbda(n, e) == Rat(2, e * n)

make_x(n, e) == [j \in arange(n) |-> RatAdd(RatNeg(make_b(e)), RatScale(j, make_lbda(n, e)))]

make_w_first_only(n) == [j \in arange(n) |-> IF j = 0 THEN 1 ELSE 2]

make_w(n) == [j \in arange(n) |-> IF j = 0 \/ j = LastIndex(n) THEN 1 ELSE 2]

(* The exception make_fft_params raises for Python numbers, "none" if it   *)
(* completes: pi/eta (line 100) and 2*pi/(eta*N) (line 101) divide by      *)
(* zero, w[0] = 0.5 (line 108) indexes an empty array when N < 0.           *)
make_fft_params_error(n, e) ==
    IF e = 0 THEN "ZeroDivisionError"
    ELSE IF n = 0 THEN "ZeroDivisionError"
    ELSE IF n < 0 THEN "IndexError"
    ELSE "none"

----------------------------------------------------------------------------
(* Model identifiers and str.lower() on them *)

ModelIds == {"GBM", "vg", "cgmy", "t", "foo"}

KnownModels == {"gbm", "vg", "cgmy", "t"}

Lower(model) ==
    IF model = "GBM" THEN "gbm"
    ELSE IF model = "VG" THEN "vg"
    ELSE IF model = "CGMY" THEN "cgmy"
    ELSE IF model = "T" THEN "t"
    ELSE IF model = "FOO" THEN "foo"
    ELSE model

(* get_cfXh: the characteristic function selected, "None" in the else branch *)
get_cfXh(model) ==
    IF Lower(model) = "gbm" THEN "gbm"
    ELSE IF Lower(model) = "vg" THEN "vg"
    ELSE IF Lower(model) = "cgmy" THEN "cgmy"
    ELSE IF Lower(model) = "t" THEN "t"
    ELSE "None"

(* One entry of Parameters.add_many: (name, value, vary, min, max, expr,   *)
(* brute_step); min and max are optional, expr and brute_step always None. *)
Par(value, min, max) == [value |-> value, vary |-> TRUE, min |-> min, max |-> max]

NoParameters == [n \in {} |-> Par(0, <<>>, <<>>)]

(* the add_many calls of get_init_estim_params, one branch per model *)
model_defaults(model) ==
    IF Lower(model) = "gbm" THEN
        [n \in {"mu", "sigma"} |->
            IF n = "mu" THEN Par(1000, <<>>, <<>>) ELSE Par(10000, <<1>>, <<>>)]
    ELSE IF Lower(model) = "vg" THEN
        [n \in {"mu", "sigma", "theta", "nu"} |->
            IF n = "mu" THEN Par(1000, <<>>, <<>>)
            ELSE IF n = "sigma" THEN Par(10000, <<1>>, <<>>)
            ELSE IF n = "theta" THEN Par(0, <<>>, <<>>)
            ELSE Par(1000, <<1>>, <<>>)]
    ELSE IF Lower(model) = "cgmy" THEN
        [n \in {"mu", "C", "G", "M", "Y"} |->
            IF n = "mu" THEN Par(1000, <<>>, <<>>)
            ELSE IF n = "C" THEN Par(1000, <<1>>, <<>>)
            ELSE IF n = "G" THEN Par(2000000, <<1>>, <<>>)
            ELSE IF n = "M" THEN Par(2000000, <<1>>, <<>>)
            ELSE Par(185000, <<>>, <<200000>>)]
    ELSE IF Lower(model) = "t" THEN
        [n \in {"mu", "sigma", "nu"} |->
            IF n = "mu" THEN Par(1000, <<>>, <<>>)
            ELSE IF n = "sigma" THEN Par(10000, <<1>>, <<>>)
            ELSE Par(10000000, <<200001>>, <<>>)]
    ELSE NoParameters

get_init_estim_params_stale(model) ==
    IF params # NoParameters /\ DOMAIN params = DOMAIN model_defaults(model)
    THEN params ELSE model_defaults(model)

(* get_init_estim_params: the Parameters object it returns, created empty  *)
(* by Parameters() at each call and filled by the branch of the model       *)
get_init_estim_params(model) == model_defaults(model)

Max(a, c) == IF a >= c THEN a ELSE c

(* np.clip(arr, a_min = lo, a_max = None) on an array of finite numbers *)
clip_array(arr, lo) == [j \in DOMAIN arr |-> Max(arr[j], lo)]

(* get_init_estim_params: the value of self.u it leaves behind (line 159) *)
get_init_estim_params_u(model, uu) ==
    IF Lower(model) = "t" THEN clip_array(uu, u_floor) ELSE uu

(* Whether a proposed value lies within a parameter's bounds *)
InBounds(p, v) ==
    /\ (p.min # <<>> => v >= p.min[1])
    /\ (p.max # <<>> => v <= p.max[1])

----------------------------------------------------------------------------
(* opt_fun.  The magnitudes of the characteristic function and of the FFT  *)
(* output are not computed: a characteristic-function value is classified  *)
(* as non-finite where the closed form has a pole, the interpolated value   *)
(* of a finite FFT output is an input of the evaluation.                    *)

(* Gamma(-Y) of the cgmy form (line 125) is at a pole for Y = 0, 1, 2 *)
GammaPole(Y) == Y \in {0, 100000, 200000}

(* cfXh(paramsdict, u_j) is non-finite:                                    *)
(*  t   : kv(nu/2, 0) = inf times 0 ** (nu/2) = 0 at modu = 0, and the sqrt *)
(*        of dt * (nu - 2) < 0 (lines 128-129)                              *)
(*  cgmy: exp(C * dt * Gamma(-Y) * (...)) at a pole of Gamma (line 125)     *)
cfXh_nonfinite(cf, pv, dtv, uj) ==
    IF cf = "t" THEN uj = 0 \/ dtv * (pv["nu"].value - 200000) < 0
    ELSE IF cf = "cgmy" THEN GammaPole(pv["Y"].value)
    ELSE FALSE

(* omega = -1/dt * log(cfXh(paramsdict, -1j)) is non-finite (line 169) *)
omega_nonfinite(cf, pv, dtv) ==
    IF cf = "t" THEN dtv * (pv["nu"].value - 200000) < 0
    ELSE IF cf = "cgmy" THEN GammaPole(pv["Y"].value)
    ELSE FALSE

(* some entry of the array cf of line 170 is non-finite *)
cf_nonfinite(cf, pv, dtv, uu) ==
    \/ omega_nonfinite(cf, pv, dtv)
    \/ \E j \in DOMAIN uu : cfXh_nonfinite(cf, pv, dtv, uu[j])

(* np.interp(data_returns, x, real(densities_fft)): every output of the    *)
(* FFT is a sum over all inputs, so one non-finite input makes every output *)
(* NaN; otherwise the interpolated values are the finite values iv.         *)
interp(dr, bad, iv) == [i \in DOMAIN dr |-> IF bad THEN NaN ELSE iv[i]]

(* np.clip(f, a_min = lo, a_max = None) of one float: maximum(f, lo), which *)
(* propagates NaN *)
np_clip(f, lo) ==
    IF f.k = "nan" THEN NaN
    ELSE IF f.k = "pinf" THEN PInf
    ELSE IF f.k = "ninf" THEN Fin(lo)
    ELSE Fin(Max(f.v, lo))

(* np.log of one float, up to the magnitude of a finite result *)
np_log(f) ==
    IF f.k = "nan" THEN NaN
    ELSE IF f.k = "pinf" THEN PInf
    ELSE IF f.k = "ninf" THEN NaN
    ELSE IF f.v < 0 THEN NaN
    ELSE IF f.v = 0 THEN NInf
    ELSE Fin(0)

(* the sum of two floats, up to the magnitude of a finite result *)
FAdd(f, g) ==
    IF f.k = "nan" \/ g.k = "nan" THEN NaN
    ELSE IF f.k = "pinf" THEN (IF g.k = "ninf" THEN NaN ELSE PInf)
    ELSE IF f.k = "ninf" THEN (IF g.k = "pinf" THEN NaN ELSE NInf)
    ELSE IF g.k = "fin" THEN Fin(0) ELSE g

FNeg(f) == IF f.k = "pinf" THEN NInf ELSE IF f.k = "ninf" THEN PInf ELSE f

RECURSIVE np_sum(_)
np_sum(s) == IF s = <<>> THEN Fin(0) ELSE FAdd(s[1], np_sum(Tail(s)))

(* -np.sum(np.log(densities)) (line 175) *)
neg_sum_log(d) == FNeg(np_sum([i \in DOMAIN d |-> np_log(d[i])]))

(* The exception opt_fun raises, "none" if it returns: -1/self.dt divides  *)
(* by zero before cfXh is called, and calling the None that get_cfXh        *)
(* returned is a TypeError (line 169).                                      *)
opt_fun_error(model, dtv) ==
    IF dtv = 0 THEN "ZeroDivisionError"
    ELSE IF get_cfXh(model) = "None" THEN "TypeError"
    ELSE "none"

(* One evaluation of opt_fun(pv, model) on the instance: the u it reads,   *)
(* the clipped densities and the value returned.                            *)
opt_fun(pv, model, iv) ==
    [model     |-> model,
     u0        |-> u[0],
     cf_bad    |-> cf_nonfinite(get_cfXh(model), pv, dt, u),
     interp    |-> interp(data_returns, cf_nonfinite(get_cfXh(model), pv, dt, u), iv),
     densities |-> [i \in DOMAIN data_returns |->
                      np_clip(interp(data_returns, cf_nonfinite(get_cfXh(model), pv, dt, u), iv)[i], density_floor)],
     value     |-> neg_sum_log([i \in DOMAIN data_returns |->
                      np_clip(interp(data_returns, cf_nonfinite(get_cfXh(model), pv, dt, u), iv)[i], density_floor)])]

NoEval == [model |-> "-", u0 |-> 0, cf_bad |-> FALSE, interp |-> <<>>, densities |-> <<>>, value |-> Fin(0)]

----------------------------------------------------------------------------
(* Inputs *)

Opt(S) == {<<>>} \cup {<<v>> : v \in S}

(* valid configurations, and configurations with one value out of range *)
ValidConfigs == [N : {<<n>> : n \in 1 .. MaxN}, eta : Opt({4, 10}), dt : Opt({2})]

InvalidConfigs ==
    [N : {<<-1>>, <<0>>}, eta : {<<>>}, dt : {<<>>}]
    \cup [N : {<<2>>}, eta : {<<0>>, <<-5000>>}, dt : {<<>>}]
    \cup [N : {<<2>>}, eta : {<<>>}, dt : {<<0>>, <<-1>>}]

ReturnVals == {NaN, NoneV, PInf, NInf, Fin(2)}

SeqsUpTo(S, n) == UNION {[1 .. k -> S] : k \in 0 .. n}

ConstructInputs ==
    ((ValidConfigs \cup InvalidConfigs) \X {<<Fin(2)>>})
    \cup ({[N |-> <<2>>, eta |-> <<>>, dt |-> <<>>]} \X SeqsUpTo(ReturnVals, MaxLen))

(* real parts of a finite FFT output interpolated at a query point: one    *)
(* below the density floor (negative) and one above it                      *)
InterpVals == {Fin(-3), Fin(25)}

(* the parameter value the optimizer proposes: 1.0 *)
ProposalVals == {100000}

----------------------------------------------------------------------------
(* State.  data_returns, N, eta, dt, b, lbda, u, x, w are the attributes   *)
(* of the instance.  cur_model, init_params, params, handed, nfev are the   *)
(* locals of the estimate call in progress or last made (its model, the     *)
(* Parameters built, the optimizer's current values, whether minimize() was *)
(* entered, the number of opt_fun calls); eval is the evaluation of opt_fun *)
(* just made by a direct call or by the optimizer, NoEval once the          *)
(* operation is over; fits counts the estimate calls that returned a        *)
(* result, up to MaxFits.                                                   *)

NoGrid == [j \in {} |-> 0]

Init ==
    /\ pc = "new"
    /\ err = "none"
    /\ last_op = "-"
    /\ input_returns = <<>>
    /\ data_returns = <<>>
    /\ N = N_default
    /\ eta = eta_default
    /\ dt = dt_default
    /\ b = Rat(0, 1)
    /\ lbda = Rat(0, 1)
    /\ u = NoGrid
    /\ x = NoGrid
    /\ w = NoGrid
    /\ cur_model = "-"
    /\ init_params = NoParameters
    /\ params = NoParameters
    /\ handed = FALSE
    /\ nfev = 0
    /\ eval = NoEval
    /\ fits = 0

OrDefault(o, d) == IF o = <<>> THEN d ELSE o[1]

NoCall ==
    /\ cur_model' = "-"
    /\ init_params' = NoParameters
    /\ params' = NoParameters
    /\ handed' = FALSE
    /\ nfev' = 0

(* Estimator(data_returns, N, eta, dt): __init__ followed by the           *)
(* make_fft_params it calls; an exception leaves no instance.               *)
Construct(c, r) ==
    /\ pc = "new"
    /\ last_op' = "construct"
    /\ input_returns' = r
    /\ data_returns' = dropna(r)
    /\ N' = OrDefault(c.N, N_default)
    /\ eta' = OrDefault(c.eta, eta_default)
    /\ dt' = OrDefault(c.dt, dt_default)
    /\ err' = make_fft_params_error(N', eta')
    /\ IF err' = "none"
       THEN /\ pc' = "idle"
            /\ b' = make_b(eta')
            /\ lbda' = make_lbda(N', eta')
            /\ u' = make_u(N', eta')
            /\ x' = make_x(N', eta')
            /\ w' = make_w(N')
       ELSE /\ pc' = "dead"
            /\ UNCHANGED <<b, lbda, u, x, w>>
    /\ UNCHANGED <<cur_model, init_params, params, handed, nfev, eval, fits>>

(* a direct call of make_fft_params() on the instance *)
MakeFftParams ==
    /\ pc = "idle"
    /\ last_op' = "make_fft_params"
    /\ err' = "none"
    /\ b' = make_b(eta)
    /\ lbda' = make_lbda(N, eta)
    /\ u' = make_u(N, eta)
    /\ x' = make_x(N, eta)
    /\ w' = make_w(N)
    /\ NoCall
    /\ eval' = NoEval
    /\ UNCHANGED <<pc, input_returns, data_returns, N, eta, dt, fits>>

(* a direct call of get_init_estim_params(model) on the instance *)
GetInitEstimParams(model) ==
    /\ pc = "idle"
    /\ last_op' = "get_init_estim_params"
    /\ err' = "none"
    /\ u' = get_init_estim_params_u(model, u)
    /\ NoCall
    /\ eval' = NoEval
    /\ UNCHANGED <<pc, input_returns, data_returns, N, eta, dt, b, lbda, x, w, fits>>

(* a direct call of opt_fun(pv, model) on the instance, pv a Parameters    *)
(* object with the model's names and default values built by the caller     *)
OptFunDirect(model, iv) ==
    /\ pc = "idle"
    /\ last_op' = "opt_fun"
    /\ err' = opt_fun_error(model, dt)
    /\ eval' = IF err' = "none" THEN opt_fun(get_init_estim_params(model), model, iv) ELSE NoEval
    /\ NoCall
    /\ UNCHANGED <<pc, input_returns, data_returns, N, eta, dt, b, lbda, u, x, w, fits>>

(* estimate(model), lines 183-186: the initial parameters are built, the   *)
(* Minimizer is constructed on them and minimize() is entered.              *)
EstimateBegin(model) ==
    /\ pc = "idle"
    /\ pc' = "minimizing"
    /\ last_op' = "estimate"
    /\ err' = "none"
    /\ cur_model' = model
    /\ init_params' = get_init_estim_params(model)
    /\ u' = get_init_estim_params_u(model, u)
    /\ params' = init_params'
    /\ handed' = TRUE
    /\ nfev' = 0
    /\ eval' = NoEval
    /\ UNCHANGED <<input_returns, data_returns, N, eta, dt, b, lbda, x, w, fits>>

(* the optimizer calls opt_fun(pv, model); an exception of opt_fun         *)
(* propagates out of minimize() and estimate().                             *)
Evaluate(pv, iv) ==
    /\ nfev' = nfev + 1
    /\ err' = opt_fun_error(cur_model, dt)
    /\ IF err' = "none"
       THEN /\ params' = pv
            /\ eval' = opt_fun(pv, cur_model, iv)
            /\ pc' = pc
       ELSE /\ pc' = "idle"
            /\ UNCHANGED <<params, eval>>
    /\ UNCHANGED <<last_op, input_returns, data_returns, N, eta, dt, b, lbda, u, x, w, cur_model, init_params, handed, fits>>

(* the first evaluation is at the initial values *)
OptEvalInitial(iv) ==
    /\ pc = "minimizing"
    /\ nfev = 0
    /\ Evaluate(params, iv)

(* later evaluations are at proposals within the bounds *)
OptEvalProposal(n, v, iv) ==
    /\ pc = "minimizing"
    /\ nfev > 0
    /\ nfev < MaxEvals
    /\ n \in DOMAIN params
    /\ InBounds(params[n], v)
    /\ Evaluate([params EXCEPT ![n].value = v], iv)

(* The optimizer is a library outside the repository: handed a parameter   *)
(* set without variables it either evaluates the objective (OptEvalInitial) *)
(* or refuses the set with an error of its own.                             *)
OptimizerRejects ==
    /\ pc = "minimizing"
    /\ nfev = 0
    /\ DOMAIN params = {}
    /\ pc' = "idle"
    /\ err' = "OptimizerError"
    /\ UNCHANGED <<last_op, input_returns, data_returns, N, eta, dt, b, lbda, u, x, w, cur_model, init_params, params, handed, nfev, eval, fits>>

(* minimize() terminates and estimate returns minimizer.result (line 187): *)
(* init_params, the fitted params and nfev                                  *)
EstimateEnd ==
    /\ pc = "minimizing"
    /\ nfev > 0
    /\ pc' = "idle"
    /\ err' = "none"
    /\ fits' = IF fits < MaxFits THEN fits + 1 ELSE fits
    /\ eval' = NoEval
    /\ UNCHANGED <<last_op, input_returns, data_returns, N, eta, dt, b, lbda, u, x, w, cur_model, init_params, params, handed, nfev>>

InterpInputs == [1 .. Len(data_returns) -> InterpVals]

Next ==
    \/ \E in \in ConstructInputs : Construct(in[1], in[2])
    \/ MakeFftParams
    \/ \E model \in ModelIds : GetInitEstimParams(model)
    \/ \E model \in ModelIds, iv \in InterpInputs : OptFunDirect(model, iv)
    \/ \E model \in ModelIds : EstimateBegin(model)
    \/ \E iv \in InterpInputs : OptEvalInitial(iv)
    \/ \E n \in DOMAIN params, v \in ProposalVals, iv \in InterpInputs : OptEvalProposal(n, v, iv)
    \/ OptimizerRejects
    \/ EstimateEnd

Spec == Init /\ [][Next]_vars

----------------------------------------------------------------------------
(* Properties *)

Built == pc \in {"idle", "minimizing"}

ValidConfig == N >= 1 /\ eta > 0 /\ dt > 0

JustConstructed == pc = "idle" /\ last_op = "construct"

Evaluated == eval.model # "-"

(* an estimate call on model t has passed get_init_estim_params *)
ClampApplied == Built /\ last_op = "estimate" /\ Lower(cur_model) = "t"

(* C1: the grid of an Estimator is immutable after construction: after any *)
(* sequence of operations u, x and w hold the values built from N and eta,  *)
(* and every evaluation of the objective for a model other than t reads     *)
(* u[0] = 0.                                                                *)
C1_GridImmutable ==
    Built =>
        /\ DOMAIN u = 0 .. (N - 1)
        /\ \A j \in DOMAIN u : u[j] = j * eta
        /\ \A j \in DOMAIN x : RatEq(x[j], RatAdd(RatNeg(b), RatScale(j, lbda)))
        /\ \A j \in DOMAIN w : w[j] = IF j = 0 \/ j = N - 1 THEN 1 ELSE 2
        /\ (Evaluated /\ Lower(eval.model) # "t" => eval.u0 = 0)

(* C2: whenever opt_fun runs for model t, inside estimate or called        *)
(* directly, the u[0] it reads is strictly positive.                        *)
C2_TNodeNeverZero ==
    (Evaluated /\ Lower(eval.model) = "t") => eval.u0 > 0

(* the number of entries of w equal to 0.5 *)
HalfWeights == Cardinality({j \in DOMAIN w : w[j] = 1})

GridShape ==
    /\ RatEq(b, Rat(1, eta))
    /\ RatEq(lbda, Rat(2, eta * N))
    /\ DOMAIN u = 0 .. (N - 1) /\ DOMAIN x = 0 .. (N - 1) /\ DOMAIN w = 0 .. (N - 1)
    /\ RatEq(x[0], RatNeg(b))
    /\ RatEq(x[N - 1], RatSub(b, lbda))
    /\ u[0] = 0
    /\ w[0] = 1 /\ w[N - 1] = 1
    /\ \A j \in DOMAIN w : (j # 0 /\ j # N - 1) => w[j] = 2

(* C3 as stated: for every valid configuration the grid built at           *)
(* construction has x[0] = -b, x[N-1] = b - lambda, u[0] = 0 and exactly    *)
(* two weights equal to 0.5, at indices 0 and N-1, all others equal to 1.   *)
C3_GridAsBuilt_Original ==
    (JustConstructed /\ ValidConfig) => (GridShape /\ HalfWeights = 2)

(* C3: for every valid configuration the grid built at construction has    *)
(* x[0] = -b, x[N-1] = b - lambda, u[0] = 0, weights 0.5 at indices 0 and   *)
(* N-1 and 1 elsewhere; the weights equal to 0.5 are two when N >= 2 and    *)
(* one, w[0], when N = 1.                                                   *)
C3_GridAsBuilt ==
    (JustConstructed /\ ValidConfig) => (GridShape /\ HalfWeights = IF N = 1 THEN 1 ELSE 2)

C3_Witness == JustConstructed /\ ValidConfig /\ N >= 3 /\ eta # eta_default

(* C4: estimate with an identifier outside gbm, vg, cgmy, t (lower-cased)  *)
(* fails with UnknownModel before the optimizer is invoked and before any   *)
(* evaluation of the objective.                                             *)
C4_UnknownModelFailsFast ==
    (last_op = "estimate" /\ Lower(cur_model) \notin KnownModels) =>
        (pc = "idle" /\ err = "UnknownModel" /\ ~handed /\ nfev = 0)

(* C5: construction with N <= 0, eta <= 0 or dt <= 0 raises                *)
(* InvalidGridConfig and leaves no Estimator with a built grid.             *)
C5_InvalidGridConfigRejected ==
    (last_op = "construct" /\ ~ValidConfig) => (pc = "dead" /\ err = "InvalidGridConfig")

(* C6: every density used by the objective at a finite query point is a    *)
(* real number >= 1e-9, whatever the interpolated value was.                *)
C6_DensityFloor ==
    \A i \in DOMAIN eval.densities :
        IsFinite(data_returns[i]) =>
            (IsFinite(eval.densities[i]) /\ eval.densities[i].v >= density_floor)

(* C7: the objective returns a finite real at every evaluated parameter    *)
(* vector.                                                                  *)
C7_ObjectiveFinite ==
    Evaluated => IsFinite(eval.value)

(* the entries of s whose kind is in kinds, in order *)
RECURSIVE Kept(_, _)
Kept(s, kinds) ==
    IF s = <<>> THEN <<>>
    ELSE IF s[1].k \in kinds THEN <<s[1]>> \o Kept(Tail(s), kinds)
    ELSE Kept(Tail(s), kinds)

(* C8 as stated: the stored returns hold no missing and no non-finite      *)
(* entry, and are the remaining entries of the input in order.              *)
C8_StoredReturnsFinite_Original ==
    Built =>
        /\ \A i \in DOMAIN data_returns : data_returns[i].k = "fin"
        /\ data_returns = Kept(input_returns, {"fin"})

(* C8: the stored returns hold no missing entry (no NaN, no None); +Inf    *)
(* and -Inf entries of the input are kept; the entries kept are in input    *)
(* order with their values, and no later operation changes them.            *)
C8_StoredReturnsNoMissing ==
    /\ [](Built =>
            /\ \A i \in DOMAIN data_returns : data_returns[i].k \notin {"nan", "none"}
            /\ data_returns = Kept(input_returns, {"fin", "pinf", "ninf"}))
    /\ [][pc # "new" => data_returns' = data_returns]_vars

C8_Witness ==
    /\ pc = "idle" /\ last_op = "estimate" /\ err = "none" /\ nfev >= 1
    /\ Len(input_returns) = 2 /\ Len(data_returns) = 1
    /\ \E i \in DOMAIN input_returns : input_returns[i].k \in {"nan", "none"}

(* the defaults of the four models: names, initial value, lower and upper  *)
(* bound (<<>> for unbounded)                                               *)
DefaultNames(m) ==
    IF m = "gbm" THEN {"mu", "sigma"}
    ELSE IF m = "vg" THEN {"mu", "sigma", "theta", "nu"}
    ELSE IF m = "cgmy" THEN {"mu", "C", "G", "M", "Y"}
    ELSE {"mu", "sigma", "nu"}

DefaultValue(m, n) ==
    IF n = "mu" THEN 1000
    ELSE IF n = "sigma" THEN 10000
    ELSE IF n = "theta" THEN 0
    ELSE IF n = "nu" THEN (IF m = "vg" THEN 1000 ELSE 10000000)
    ELSE IF n = "C" THEN 1000
    ELSE IF n = "Y" THEN 185000
    ELSE 2000000

DefaultMin(m, n) ==
    IF n \in {"mu", "theta", "Y"} THEN <<>>
    ELSE IF n = "nu" /\ m = "t" THEN <<200001>>
    ELSE <<1>>

DefaultMax(m, n) == IF n = "Y" THEN <<200000>> ELSE <<>>

(* C9: every estimate call on one of the four models hands the optimizer   *)
(* the fixed defaults of that model (names, initial values, bounds, vary    *)
(* true, mu present and unbounded, every initial value within its bounds),  *)
(* and the first point evaluated is that initial set, whatever estimate     *)
(* calls came before.                                                       *)
C9_FreshDefaults ==
    (handed /\ Lower(cur_model) \in KnownModels) =>
        /\ DOMAIN init_params = DefaultNames(Lower(cur_model))
        /\ \A n \in DOMAIN init_params :
            /\ init_params[n].value = DefaultValue(Lower(cur_model), n)
            /\ init_params[n].min = DefaultMin(Lower(cur_model), n)
            /\ init_params[n].max = DefaultMax(Lower(cur_model), n)
            /\ init_params[n].vary
            /\ InBounds(init_params[n], init_params[n].value)
        /\ "mu" \in DOMAIN init_params
        /\ init_params["mu"].min = <<>> /\ init_params["mu"].max = <<>>
        /\ (nfev <= 1 => params = init_params)

(* a second estimate call is in progress after one that returned *)
C9_Witness ==
    /\ pc = "minimizing" /\ nfev = 1 /\ fits >= 1
    /\ Lower(cur_model) = "cgmy"

(* C10: for every valid configuration the clamp of model t changes only    *)
(* the first node: afterwards u[0] is the floor, u[j] = j*eta for j >= 1    *)
(* and the nodes are strictly increasing.                                   *)
C10_ClampOnlyFirstNode ==
    (ClampApplied /\ N >= 1 /\ eta > 0) =>
        /\ u[0] = u_floor
        /\ \A j \in DOMAIN u : j >= 1 => u[j] = j * eta
        /\ \A j \in DOMAIN u : j >= 1 => u[j - 1] < u[j]

============================================================================
